---- MODULE Spec2Model ----
(***************************************************************************)
(* Model of the task repositories of ДЗ.cpp: InMemoryTaskRepository and     *)
(* FileTaskRepository behind the ITaskRepository interface.                 *)
(*                                                                          *)
(* A std::string is a sequence of one-character strings.  The backing file  *)
(* is either NoFile (the path does not exist) or its content, a sequence of *)
(* characters.  Both repositories are driven by the same calls in Spec, so  *)
(* that the two variants can be compared call by call.                      *)
(***************************************************************************)
EXTENDS Integers, Sequences, FiniteSets, TLC

\* ------------------------------------------------------------------ bounds

\* at most this many addTask calls are made on a repository in Spec
MaxAdds == 2
\* at most this many addTask calls in the stepwise specifications
MaxStepAdds == 2

\* ------------------------------------------------------------- characters

COMMA == ","
NL == "\n"
\* a byte of a hole left by a write past the end of a file
NUL == "NUL"

TrueLit == <<"t", "r", "u", "e">>
FalseSuffix == <<",", "f", "a", "l", "s", "e", "\n">>
DonePrefix == <<"[", "X", "]", " ">>
OpenPrefix == <<"[", " ", "]", " ">>

\* std::string::npos is the largest size_t; only npos + 1 = 0 (the wrap) and
\* "count = npos means to the end" are used, which -1 gives in the integers.
npos == -1

\* the descriptions the callers pass: empty, plain, with a comma, with a
\* line break
Descriptions ==
    { <<>>, <<"a">>, <<"a", ",", "b">>, <<"a", "\n", "b">> }

StepDescriptions == { <<"a">>, <<"b">> }

Paths == { "tasks.txt", "other.txt" }
NoFile == "NoFile"

Callers == { 1, 2 }

\* ------------------------------------------------------- string functions

\* std::string::find(char): the 0-based position of the first ch, or npos
Find(s, ch) ==
    IF \E i \in 1..Len(s) : s[i] = ch
    THEN (CHOOSE i \in 1..Len(s) :
              s[i] = ch /\ \A j \in 1..(i - 1) : s[j] # ch) - 1
    ELSE npos

\* std::string::substr(pos, count), pos <= size
Substr(s, pos, count) ==
    IF count = npos \/ pos + count > Len(s)
    THEN SubSeq(s, pos + 1, Len(s))
    ELSE SubSeq(s, pos + 1, pos + count)

\* std::string::substr(pos)
SubstrFrom(s, pos) == Substr(s, pos, npos)

\* the getline loop: the lines of a file's content; a last line without a
\* line break is a line when it is not empty
RECURSIVE GetLines(_)
GetLines(content) ==
    IF content = <<>> THEN <<>>
    ELSE LET p == Find(content, NL) IN
         IF p = npos THEN << content >>
         ELSE << SubSeq(content, 1, p) >>
              \o GetLines(SubSeq(content, p + 2, Len(content)))

\* ifstream file(filePath); if (file.is_open()) { while (getline ...) }
ReadLines(files, path) ==
    IF files[path] = NoFile THEN <<>> ELSE GetLines(files[path])

Max(a, b) == IF a >= b THEN a ELSE b

\* ------------------------------------------------ InMemoryTaskRepository

InMemory_addTask(ts, task) ==
    Append(ts, [description |-> task, completed |-> FALSE])

InMemory_getTasks(ts) ==
    [k \in 1..Len(ts) |->
        IF ts[k].completed THEN DonePrefix \o ts[k].description
        ELSE OpenPrefix \o ts[k].description]

\* a slip: the flag is flipped instead of set
InMemory_markTaskCompleted_Toggle(ts, index) ==
    IF index >= 0 /\ index < Len(ts)
    THEN [ts EXCEPT ![index + 1].completed = ~ts[index + 1].completed]
    ELSE ts

\* tasks[index] is the element at TLA+ position index + 1
InMemory_markTaskCompleted(ts, index) ==
    IF index >= 0 /\ index < Len(ts)
    THEN [ts EXCEPT ![index + 1].completed = TRUE]
    ELSE ts

\* -------------------------------------------------- FileTaskRepository

\* a slip: the constructor opens an output stream to make sure the file is
\* there, which empties it
FileTaskRepository_Truncating(path, files) ==
    [self |-> [filePath |-> path], files |-> [files EXCEPT ![path] = <<>>]]

\* the constructor stores the path and touches no file
FileTaskRepository(path, files) ==
    [self |-> [filePath |-> path], files |-> files]

\* a slip: the file is opened with a stream that creates it
OpenRead_Creating(files, path) ==
    IF files[path] = NoFile THEN [files EXCEPT ![path] = <<>>] ELSE files

\* ifstream file(filePath): opening for reading creates and changes nothing
OpenRead(files, path) == files

\* ofstream file(filePath, ios::app): creates a missing file, keeps content
OpenAppend(files, path) ==
    IF files[path] = NoFile THEN [files EXCEPT ![path] = <<>>] ELSE files

\* a slip: the output stream is opened without truncation
OpenTruncate_Keeping(files, path) ==
    IF files[path] = NoFile THEN [files EXCEPT ![path] = <<>>] ELSE files

\* ofstream outFile(filePath): creates a missing file, truncates an existing
OpenTruncate(files, path) == [files EXCEPT ![path] = <<>>]

\* a write of data at an offset of an open file; a write past the end leaves
\* a hole
WriteAt(files, path, off, data) ==
    LET old == files[path]
        pad == [k \in 1..(off - Len(old)) |-> NUL]
        head == IF off <= Len(old) THEN SubSeq(old, 1, off) ELSE old \o pad
        tail == SubSeq(old, off + Len(data) + 1, Len(old))
    IN [files EXCEPT ![path] = head \o data \o tail]

\* a slip: ios::app is left out, so the file is emptied before the write
FileTask_addTask_NoAppend(repo, files, task) ==
    [files EXCEPT ![repo.filePath] = task \o FalseSuffix]

FileTask_addTask(repo, files, task) ==
    LET opened == OpenAppend(files, repo.filePath) IN
    WriteAt(opened, repo.filePath, Len(opened[repo.filePath]),
            task \o FalseSuffix)

\* one line of the file as getTasks shows it
FormatLine(line) ==
    LET commaPos == Find(line, COMMA)
        description == Substr(line, 0, commaPos)
        completed == SubstrFrom(line, commaPos + 1) = TrueLit
    IN IF completed THEN DonePrefix \o description
       ELSE OpenPrefix \o description

FileTask_getTasks(repo, files) ==
    LET ls == ReadLines(files, repo.filePath) IN
    [k \in 1..Len(ls) |-> FormatLine(ls[k])]

\* a slip: commaPos instead of commaPos + 1, which drops the comma
MarkLine_NoComma(ls, index) ==
    IF index >= 0 /\ index < Len(ls)
    THEN LET commaPos == Find(ls[index + 1], COMMA) IN
         [ls EXCEPT ![index + 1] = Substr(ls[index + 1], 0, commaPos)
                                    \o TrueLit]
    ELSE ls

\* lines 180-183: the line at index gets the suffix "true"
MarkLine(ls, index) ==
    IF index >= 0 /\ index < Len(ls)
    THEN LET commaPos == Find(ls[index + 1], COMMA) IN
         [ls EXCEPT ![index + 1] = Substr(ls[index + 1], 0, commaPos + 1)
                                    \o TrueLit]
    ELSE ls

\* the k-th insertion of the loop of lines 187-189: the text of a line, then
\* its line break
Insertion(ls, k) ==
    IF k % 2 = 1 THEN ls[(k + 1) \div 2] ELSE << NL >>

RECURSIVE Insertions(_, _)
Insertions(ls, k) ==
    IF k = 0 THEN <<>> ELSE Insertions(ls, k - 1) \o Insertion(ls, k)

\* a slip: the output stream is opened first and an index out of range
\* returns before anything is written back
FileTask_markTaskCompleted_EarlyReturn(repo, files, index) ==
    LET ls == ReadLines(files, repo.filePath)
        opened == OpenTruncate(files, repo.filePath)
    IN IF index >= 0 /\ index < Len(ls)
       THEN WriteAt(opened, repo.filePath, 0,
                    Insertions(MarkLine(ls, index), 2 * Len(ls)))
       ELSE opened

\* the whole call, uninterrupted
FileTask_markTaskCompleted(repo, files, index) ==
    LET ls == MarkLine(ReadLines(OpenRead(files, repo.filePath),
                                 repo.filePath), index)
        opened == OpenTruncate(files, repo.filePath)
    IN WriteAt(opened, repo.filePath, 0, Insertions(ls, 2 * Len(ls)))

\* ------------------------------------------------------------------ state

VARIABLES
    tasks,   \* InMemoryTaskRepository::tasks
    fs,      \* the file system: the content of each path, or NoFile
    repo,    \* the FileTaskRepository instance: [filePath]
    call,    \* per caller, the position inside markTaskCompleted and its locals
    added,   \* history: the descriptions of the completed addTask calls
    marked,  \* history: a markTaskCompleted call has been made
    last,    \* history: the last operation and what getTasks gave before it
    lost,    \* history: lines dropped by interrupted rewrites
    race     \* history: how calls of different callers have overlapped

vars == << tasks, fs, repo, call, added, marked, last, lost, race >>

\* a caller outside markTaskCompleted; inside it: the index passed, the lines
\* read, the insertions made (k), of which flushed (fk), the stream's
\* buffer and the stream's position in the file
Idle ==
    [pc |-> "idle", index |-> 0, lines |-> <<>>, k |-> 0, fk |-> 0,
     buf |-> <<>>, off |-> 0]

MemView == InMemory_getTasks(tasks)
FileView == FileTask_getTasks(repo, fs)
FileLines == ReadLines(fs, repo.filePath)
AllIdle == \A c \in Callers : call[c].pc = "idle"

Before(op, index) ==
    [op |-> op, index |-> index, mem |-> MemView, file |-> FileView,
     missing |-> fs[repo.filePath] = NoFile]

\* a fresh process: an empty in-memory list, and a repository constructed on
\* a path whose file is absent or empty
Init ==
    /\ tasks = <<>>
    /\ \E p \in Paths, c \in { NoFile, <<>> } :
          LET made == FileTaskRepository(p,
                          [q \in Paths |-> IF q = p THEN c ELSE NoFile])
          IN repo = made.self /\ fs = made.files
    /\ call = [c \in Callers |-> Idle]
    /\ added = <<>>
    /\ marked = FALSE
    /\ last = [op |-> "init", index |-> 0, mem |-> <<>>, file |-> <<>>,
               missing |-> fs[repo.filePath] = NoFile]
    /\ lost = 0
    /\ race = "none"

\* ------------------------------------------- one caller, call after call

\* repository->addTask(d) on both variants
AddTask(d) ==
    /\ Len(added) < MaxAdds
    /\ tasks' = InMemory_addTask(tasks, d)
    /\ fs' = FileTask_addTask(repo, fs, d)
    /\ added' = Append(added, d)
    /\ last' = Before("add", 0)
    /\ UNCHANGED << repo, call, marked, lost, race >>

\* repository->getTasks() on both variants
GetTasks ==
    /\ fs' = OpenRead(fs, repo.filePath)
    /\ last' = Before("get", 0)
    /\ UNCHANGED << tasks, repo, call, added, marked, lost, race >>

\* repository->markTaskCompleted(index) on both variants
MarkTaskCompleted(index) ==
    /\ tasks' = InMemory_markTaskCompleted(tasks, index)
    /\ fs' = FileTask_markTaskCompleted(repo, fs, index)
    /\ marked' = TRUE
    /\ last' = Before("mark", index)
    /\ UNCHANGED << repo, call, added, lost, race >>

\* the process ends and a new one constructs a repository on the same path
Reopen ==
    /\ LET made == FileTaskRepository(repo.filePath, fs)
       IN repo' = made.self /\ fs' = made.files
    /\ last' = Before("reopen", 0)
    /\ UNCHANGED << tasks, call, added, marked, lost, race >>

\* the indexes a caller may pass: below, inside and above the range
Indexes == -1..(Max(Len(tasks), Len(FileLines)) + 1)

Next ==
    \/ \E d \in Descriptions : AddTask(d)
    \/ GetTasks
    \/ \E i \in Indexes : MarkTaskCompleted(i)
    \/ Reopen

Spec == Init /\ [][Next]_vars

\* ------------------------------ FileTaskRepository, statement by statement

\* the lines the completed addTask calls have written
RECURSIVE AddedContent(_)
AddedContent(ds) ==
    IF ds = <<>> THEN <<>>
    ELSE AddedContent(SubSeq(ds, 1, Len(ds) - 1)) \o ds[Len(ds)] \o FalseSuffix

WrittenLines == GetLines(AddedContent(added))

\* another caller is inside markTaskCompleted
Overlaps(c) == \E o \in Callers \ {c} : call[o].pc # "idle"

\* all other callers inside markTaskCompleted have read and not yet opened
\* the file for writing
BetweenReadAndRewrite(c) ==
    \A o \in Callers \ {c} : call[o].pc \in { "idle", "open" }

\* addTask by caller c (lines 142-149)
FileAddTask(c, d) ==
    /\ call[c].pc = "idle"
    /\ Len(added) < MaxStepAdds
    /\ fs' = FileTask_addTask(repo, fs, d)
    /\ added' = Append(added, d)
    /\ last' = Before("add", 0)
    /\ race' = IF ~Overlaps(c) THEN race
               ELSE IF race # "other" /\ BetweenReadAndRewrite(c) THEN "add"
               ELSE "other"
    /\ UNCHANGED << tasks, repo, call, marked, lost >>

\* markTaskCompleted by caller c, lines 170-183: the file is read into lines
\* and the line at index is changed
MarkRead(c, index) ==
    /\ call[c].pc = "idle"
    /\ call' = [call EXCEPT ![c] =
                   [Idle EXCEPT !.pc = "open", !.index = index,
                       !.lines = MarkLine(
                           ReadLines(OpenRead(fs, repo.filePath),
                                     repo.filePath), index)]]
    /\ fs' = OpenRead(fs, repo.filePath)
    /\ last' = Before("read", index)
    /\ race' = IF Overlaps(c) THEN "other" ELSE race
    /\ UNCHANGED << tasks, repo, added, marked, lost >>

\* line 185: the output stream is opened, which empties the file
MarkOpen(c) ==
    /\ call[c].pc = "open"
    /\ fs' = OpenTruncate(fs, repo.filePath)
    /\ call' = [call EXCEPT ![c].pc = "write"]
    /\ last' = Before("open", call[c].index)
    /\ race' = IF Overlaps(c) THEN "other" ELSE race
    /\ UNCHANGED << tasks, repo, added, marked, lost >>

\* line 188: one insertion into the stream, which goes to its buffer
MarkInsert(c) ==
    /\ call[c].pc = "write"
    /\ call[c].k < 2 * Len(call[c].lines)
    /\ call' = [call EXCEPT
                   ![c].k = @ + 1,
                   ![c].buf = @ \o Insertion(call[c].lines, call[c].k + 1)]
    /\ last' = Before("insert", call[c].index)
    /\ race' = IF Overlaps(c) THEN "other" ELSE race
    /\ UNCHANGED << tasks, fs, repo, added, marked, lost >>

\* the stream writes its buffer to the file; when it does before close is up
\* to the library
MarkFlush(c) ==
    /\ call[c].pc = "write"
    /\ call[c].buf # <<>>
    /\ fs' = WriteAt(fs, repo.filePath, call[c].off, call[c].buf)
    /\ call' = [call EXCEPT ![c].buf = <<>>, ![c].fk = call[c].k,
                            ![c].off = @ + Len(call[c].buf)]
    /\ last' = Before("flush", call[c].index)
    /\ race' = IF Overlaps(c) THEN "other" ELSE race
    /\ UNCHANGED << tasks, repo, added, marked, lost >>

\* line 190: close after the loop writes what is left in the buffer
MarkClose(c) ==
    /\ call[c].pc = "write"
    /\ call[c].k = 2 * Len(call[c].lines)
    /\ fs' = WriteAt(fs, repo.filePath, call[c].off, call[c].buf)
    /\ call' = [call EXCEPT ![c] = Idle]
    /\ marked' = TRUE
    /\ last' = Before("mark", call[c].index)
    /\ race' = IF Overlaps(c) THEN "other" ELSE race
    /\ UNCHANGED << tasks, repo, added, lost >>

\* the process is interrupted inside markTaskCompleted: the locals and the
\* buffer are gone, the file is what has been written
Crash(c) ==
    /\ call[c].pc # "idle"
    /\ call' = [call EXCEPT ![c] = Idle]
    /\ lost' = IF call[c].pc = "write"
               THEN lost + Len(call[c].lines) - Len(FileLines)
               ELSE lost
    /\ last' = [op |-> "crash", index |-> call[c].index, pc |-> call[c].pc,
                n |-> Len(call[c].lines), fk |-> call[c].fk,
                k |-> call[c].k,
                mem |-> MemView, file |-> FileView,
                missing |-> fs[repo.filePath] = NoFile]
    /\ UNCHANGED << tasks, fs, repo, added, marked, race >>

StepIndexes == -1..(Len(FileLines) + 1)

\* one caller, who may be interrupted
NextCrash ==
    \/ \E d \in StepDescriptions : FileAddTask(1, d)
    \/ \E i \in StepIndexes : MarkRead(1, i)
    \/ MarkOpen(1)
    \/ MarkInsert(1)
    \/ MarkFlush(1)
    \/ MarkClose(1)
    \/ Crash(1)

SpecCrash == Init /\ [][NextCrash]_vars

\* two callers on the same file, nobody interrupted.  The calls run one
\* after another, except that an addTask of one caller may run while the
\* other is inside markTaskCompleted, after its read and before its rewrite.
NextRace ==
    \E c \in Callers :
        \/ /\ BetweenReadAndRewrite(c)
           /\ \E d \in StepDescriptions : FileAddTask(c, d)
        \/ /\ ~Overlaps(c)
           /\ \E i \in StepIndexes : MarkRead(c, i)
        \/ ~Overlaps(c) /\ MarkOpen(c)
        \/ ~Overlaps(c) /\ MarkInsert(c)
        \/ ~Overlaps(c) /\ MarkFlush(c)
        \/ ~Overlaps(c) /\ MarkClose(c)

SpecRace == Init /\ [][NextRace]_vars

\* ------------------------------------------------------ the shown entries

\* the description text of a shown entry: what follows the 4-character prefix
Shown_description(entry) == SubSeq(entry, 5, Len(entry))
Shown_done(entry) == SubSeq(entry, 1, 4) = DonePrefix
ValidIndex(index, view) == index >= 0 /\ index < Len(view)

\* what getTasks is to return when only addTask has been called
Expected == [k \in 1..Len(added) |-> OpenPrefix \o added[k]]

\* view is view0 with the entry at index completed and nothing else changed
MarkedIn(view0, view, index) ==
    /\ Len(view) = Len(view0)
    /\ Shown_done(view[index + 1])
    /\ Shown_description(view[index + 1]) = Shown_description(view0[index + 1])
    /\ \A j \in 1..Len(view0) : j # index + 1 => view[j] = view0[j]

\* ----------------------------------------------------------------- C1

\* C1: as long as only addTask has been called, getTasks of either variant
\* returns one entry per call, entry k being "[ ] " followed by the k-th
\* description, in the order added.
C1_AddedInOrder ==
    ~marked => MemView = Expected /\ FileView = Expected

\* ----------------------------------------------------------------- C2

\* C2: after markTaskCompleted(i) with a valid i, entry i of getTasks starts
\* with "[X] " and keeps its description, the number of entries is unchanged
\* and every other entry is what it was, for either variant.
C2_MarkValid ==
    last.op = "mark" =>
        /\ ValidIndex(last.index, last.mem)
              => MarkedIn(last.mem, MemView, last.index)
        /\ ValidIndex(last.index, last.file)
              => MarkedIn(last.file, FileView, last.index)

\* ----------------------------------------------------------------- C3

\* C3: markTaskCompleted(i) with i below 0 or not below the number of tasks
\* leaves getTasks as it was, for either variant.
C3_MarkOutOfRange ==
    last.op = "mark" =>
        /\ ~ValidIndex(last.index, last.mem) => MemView = last.mem
        /\ ~ValidIndex(last.index, last.file) => FileView = last.file

\* two uncompleted tasks in both stores, and an index past the end was passed
C3_Witness ==
    /\ last.op = "mark"
    /\ Len(last.mem) = 2 /\ Len(last.file) = 2
    /\ last.index >= 2
    /\ \A k \in 1..2 : ~Shown_done(MemView[k]) /\ ~Shown_done(FileView[k])

\* ----------------------------------------------------------------- C4

\* C4: driven by the same calls from empty stores, the file-backed variant
\* and the in-memory variant return the same getTasks after every call.
C4_SameViews == FileView = MemView

\* ----------------------------------------------------------------- C5

\* C5: a repository constructed anew on the same path returns the getTasks
\* output the previous instance returned.
C5_Reopen == last.op = "reopen" => FileView = last.file

\* a reopened store of two tasks, the first of them completed
C5_Witness ==
    /\ last.op = "reopen"
    /\ Len(FileView) >= 2
    /\ Shown_done(FileView[1])

\* ----------------------------------------------------------------- C6

\* C6: after markTaskCompleted(i) with a valid i, a second markTaskCompleted(i)
\* changes neither the store (task list, file content) nor getTasks.
C6_Idempotent ==
    last.op = "mark" =>
        /\ ValidIndex(last.index, last.mem)
              => /\ InMemory_markTaskCompleted(tasks, last.index) = tasks
                 /\ InMemory_getTasks(
                        InMemory_markTaskCompleted(tasks, last.index)) = MemView
        /\ ValidIndex(last.index, last.file)
              => /\ FileTask_markTaskCompleted(repo, fs, last.index) = fs
                 /\ FileTask_getTasks(repo,
                        FileTask_markTaskCompleted(repo, fs, last.index))
                      = FileView

\* a valid index was marked in stores of two tasks, the other one still open
C6_Witness ==
    /\ last.op = "mark"
    /\ ValidIndex(last.index, last.mem) /\ ValidIndex(last.index, last.file)
    /\ Len(MemView) = 2 /\ Len(FileView) = 2
    /\ \E k \in 1..2 : ~Shown_done(MemView[k]) /\ ~Shown_done(FileView[k])

\* ----------------------------------------------------------------- C7

StaysDone(view0, view) ==
    \A k \in 1..Len(view0) :
        Shown_done(view0[k]) => k <= Len(view) /\ Shown_done(view[k])

\* C7: an entry shown as completed at an index is shown as completed at that
\* index after every later call, for either variant.  last holds what
\* getTasks gave right before the call that led to the current state, so
\* this is the step from every reachable state to each of its successors.
C7_Monotonic ==
    StaysDone(last.mem, MemView) /\ StaysDone(last.file, FileView)

\* a task was added after another had been completed, which still is
C7_Witness ==
    /\ last.op = "add"
    /\ \E k \in 1..Len(last.file) :
          /\ Shown_done(last.file[k]) /\ Shown_done(FileView[k])
          /\ Shown_done(last.mem[k]) /\ Shown_done(MemView[k])

\* ----------------------------------------------------------------- C8

\* C8: on a path that does not exist, getTasks returns no entry and leaves
\* the path absent, and after markTaskCompleted(i), for any i, getTasks
\* still returns no entry.
C8_MissingFile ==
    /\ last.op = "get" /\ last.missing
          => last.file = <<>> /\ fs[repo.filePath] = NoFile
    /\ last.op = "mark" /\ last.missing => FileView = <<>>

\* getTasks has just been called on a path that does not exist
C8_Witness == last.op = "get" /\ last.missing /\ FileView = <<>>

\* ----------------------------------------------------------------- C9

\* what markTaskCompleted keeps of a line: the text up to and including the
\* first comma
LineKey(line) == Substr(line, 0, Find(line, COMMA) + 1)

\* every line an addTask call wrote is in the file, at its place
NoTaskLost ==
    /\ Len(FileLines) = Len(WrittenLines)
    /\ \A k \in 1..Len(WrittenLines) :
          LineKey(FileLines[k]) = LineKey(WrittenLines[k])

\* C9: under SpecRace, as long as the calls of the two callers have run one
\* after another, every added task is in the file whenever no call is under
\* way; the state where a completed addTask's task is missing is reached by
\* an addTask between the read and the rewrite of the other caller's
\* markTaskCompleted (C9_Witness).
C9_SerialKeepsTasks == AllIdle /\ race = "none" => NoTaskLost

\* an addTask ran between the read and the rewrite of a markTaskCompleted
\* that has now returned, and the file has fewer lines than were added
C9_Witness ==
    /\ AllIdle
    /\ race = "add"
    /\ last.op = "mark"
    /\ Len(FileLines) < Len(WrittenLines)

\* ----------------------------------------------------------------- C10

\* an interrupted markTaskCompleted had opened the file for writing and had
\* not yet written all the lines to it
InterruptedRewrite ==
    /\ last.op = "crash"
    /\ last.pc = "write"
    /\ last.fk < 2 * last.n

====
